---- MODULE Spec2Model ----
(***************************************************************************)
(* rosdiscover: the interpreter that simulates the architectural effects   *)
(* of launching ROS nodes (src/rosdiscover/interpreter/__init__.py).       *)
(*                                                                         *)
(* Strings are sequences of lexemes: "/" and "~" and " " are lexemes of    *)
(* their own, an identifier is one lexeme.  Python's name[0], name[1:],    *)
(* str.format and + become Head, Tail and \o.                              *)
(***************************************************************************)
EXTENDS Integers, Sequences, FiniteSets, TLC

VARIABLES
    models,   \* Model._models: (package, name) -> Model
    params,   \* each session's ParameterServer contents
    nodes,    \* each session's set of NodeSummary
    ctx,      \* the NodeContext under evaluation
    steps,    \* number of calls made so far
    last,     \* the last call: its arguments, return value and raised error
    history,  \* each session's launch calls so far, in order
    io        \* the shell and reader calls made by the last launch, in order

vars == <<models, params, nodes, ctx, steps, last, history, io>>

(***************************************************************************)
(* Bounds and input sets                                                   *)
(***************************************************************************)
MaxCalls == 2

Sessions == {1}

NodeNames == {<<"n">>, <<"m">>}

Namespaces == {<<"/">>, <<"/", "ns">>}

\* the name and namespace of the nodes a context is constructed for
NodeIds == {<<(<<"n">>), (<<"/">>)>>, <<(<<"m">>), (<<"/", "ns">>)>>}

\* names handed to the effect calls: relative, absolute, private
Names == {<<"a">>, <<"/", "a">>, <<"~", "a">>}

Fmts == {<<"T">>, <<"Example">>}

Vals == {"v1", "v2"}

Defaults == {"None", "v2"}

\* raw remappings, in the order of the dictionary's items
RemapInputs ==
    { << >>,
      << <<(<<"a">>), (<<"b">>)>> >>,
      << <<(<<"/", "a", "/", "goal">>), (<<"/", "b">>)>> >>,
      << <<(<<"~", "a">>), (<<"/", "b">>)>>, <<(<<"/", "n", "/", "a">>), (<<"c">>)>> >> }

\* initial contents of a parameter server
Stores == { << >>, [k \in {<<"/", "a">>} |-> "v1"] }

NoCall ==
    [op |-> "none", name |-> << >>, fmt |-> << >>, val |-> "None",
     dynamic |-> FALSE, ret |-> "None", err |-> "ok"]

Call(op, name, fmt, val, dynamic, ret, err) ==
    [op |-> op, name |-> name, fmt |-> fmt, val |-> val,
     dynamic |-> dynamic, ret |-> ret, err |-> err]

(***************************************************************************)
(* ParameterServer                                                         *)
(***************************************************************************)
contains(contents, key) ==
    key \in DOMAIN contents

setitem(contents, key, val) ==
    [k \in (DOMAIN contents) \cup {key} |->
        IF k = key THEN val ELSE contents[k]]

\* ParameterServer.get(name, default): the stored value, or default if absent
get(contents, key, default) ==
    IF key \in DOMAIN contents THEN contents[key] ELSE default

(***************************************************************************)
(* NodeContext                                                             *)
(***************************************************************************)
\* resolve, a relative name qualified under the node's namespace
resolve_in_namespace(self, name) ==
    IF Head(name) = "/" THEN name
    ELSE IF Head(name) = "~"
         THEN <<"/">> \o self.name \o <<"/">> \o Tail(name)
         ELSE IF self.namespace = <<"/">>
              THEN <<"/">> \o name
              ELSE self.namespace \o <<"/">> \o name

\* resolve, a relative name qualified under the node's name and left unrooted
resolve_unrooted(self, name) ==
    IF Head(name) = "/" THEN name
    ELSE IF Head(name) = "~"
         THEN <<"/">> \o self.name \o <<"/">> \o Tail(name)
         ELSE self.name \o <<"/">> \o name

resolve(self, name) ==
    IF Head(name) = "/" THEN name
    ELSE IF Head(name) = "~"
         THEN <<"/">> \o self.name \o <<"/">> \o Tail(name)
         ELSE <<"/">> \o name

\* the dict comprehension of NodeContext.__init__: later items overwrite
RECURSIVE resolve_remappings(_, _)
resolve_remappings(self, items) ==
    IF items = << >> THEN << >>
    ELSE LET n == Len(items)
             rest == resolve_remappings(self, SubSeq(items, 1, n - 1))
         IN  setitem(rest, resolve(self, items[n][1]), resolve(self, items[n][2]))

NodeContext(name, namespace, kind, package, args, remappings, session) ==
    LET self == [name |-> name, namespace |-> namespace, kind |-> kind,
                 package |-> package, params |-> session, args |-> args,
                 nodelet |-> FALSE,
                 uses |-> {}, provides |-> {}, subs |-> {}, pubs |-> {},
                 action_servers |-> {}, action_clients |-> {},
                 reads |-> {}, writes |-> {},
                 placeholder |-> FALSE,
                 remappings |-> << >>]
    IN  [self EXCEPT !.remappings = resolve_remappings(self, remappings)]

fullname(self) ==
    LET ns == IF self.namespace[Len(self.namespace)] # "/"
              THEN self.namespace \o <<" ", "/">>
              ELSE self.namespace
    IN  ns \o self.name

remap(self, name) ==
    IF name \in DOMAIN self.remappings THEN self.remappings[name] ELSE name

\* NodeSummary: the record of the fixed fields of a summary; the placeholder
\* flag is false unless the caller passes it
NodeSummary(name, full, namespace, kind, package, nodelet, reads, writes, pubs, subs, provides, uses, action_servers, action_clients) ==
    [name |-> name, fullname |-> full,
     namespace |-> namespace, kind |-> kind,
     package |-> package, nodelet |-> nodelet,
     placeholder |-> FALSE,
     reads |-> reads, writes |-> writes,
     pubs |-> pubs, subs |-> subs,
     provides |-> provides, uses |-> uses,
     action_servers |-> action_servers,
     action_clients |-> action_clients]

\* summarize hands NodeSummary the fourteen fields below; the context's
\* placeholder flag is not among them
summarize(self) ==
    NodeSummary(self.name, fullname(self),
                self.namespace, self.kind,
                self.package, self.nodelet,
                self.reads, self.writes,
                self.pubs, self.subs,
                self.provides, self.uses,
                self.action_servers,
                self.action_clients)

\* provide, the entry dropped when it is already recorded
provide_toggle(self, service, fmt) ==
    LET e == <<self.remappings[resolve(self, service)], fmt>>
        f == <<resolve(self, service), fmt>>
        entry == IF resolve(self, service) \in DOMAIN self.remappings THEN e ELSE f
    IN  [self EXCEPT !.provides = IF entry \in @ THEN @ \ {entry} ELSE @ \cup {entry}]

provide(self, service, fmt) ==
    LET service_name_full == remap(self, resolve(self, service))
    IN  [self EXCEPT !.provides = @ \cup {<<service_name_full, fmt>>}]

use(self, service, fmt) ==
    LET service_name_full == remap(self, resolve(self, service))
    IN  [self EXCEPT !.uses = @ \cup {<<service_name_full, fmt>>}]

\* sub without the remapping
sub_unmapped(self, topic_name, fmt) ==
    [self EXCEPT !.subs = @ \cup {<<resolve(self, topic_name), fmt>>}]

sub(self, topic_name, fmt) ==
    LET topic_name_full == remap(self, resolve(self, topic_name))
    IN  [self EXCEPT !.subs = @ \cup {<<topic_name_full, fmt>>}]

\* pub without the remapping
pub_unmapped(self, topic_name, fmt) ==
    [self EXCEPT !.pubs = @ \cup {<<resolve(self, topic_name), fmt>>}]

pub(self, topic_name, fmt) ==
    LET topic_name_full == remap(self, resolve(self, topic_name))
    IN  [self EXCEPT !.pubs = @ \cup {<<topic_name_full, fmt>>}]

\* read, the entry recorded under the name as given
read_unresolved(self, store, param, default, dynamic) ==
    [ctx |-> [self EXCEPT !.reads = @ \cup {<<param, dynamic>>}],
     store |-> store,
     ret |-> IF resolve(self, param) \in DOMAIN store
             THEN store[resolve(self, param)] ELSE default]

\* read returns the context, the store and the value handed back
read(self, store, param, default, dynamic) ==
    LET p == resolve(self, param)
    IN  [ctx |-> [self EXCEPT !.reads = @ \cup {<<p, dynamic>>}],
         store |-> store,
         ret |-> get(store, p, default)]

\* write, the writes set assigned instead of added to
write_reset(self, store, param, val) ==
    [ctx |-> [self EXCEPT !.writes = {resolve(self, param)}],
     store |-> store]

write(self, store, param, val) ==
    LET p == resolve(self, param)
    IN  [ctx |-> [self EXCEPT !.writes = @ \cup {p}],
         store |-> store]

\* action_server, the cancel topic typed as the goal topic
action_server_cancel_type(self, ns0, fmt) ==
    LET ns == resolve(self, ns0)
        s0 == [self EXCEPT !.action_servers = @ \cup {<<ns, fmt>>}]
        s1 == sub(s0, ns \o <<"/", "goal">>, fmt \o <<"Goal">>)
        s2 == sub(s1, ns \o <<"/", "cancel">>, fmt \o <<"Goal">>)
        s3 == pub(s2, ns \o <<"/", "status">>, <<"actionlib_msgs", "/", "GoalStatusArray">>)
        s4 == pub(s3, ns \o <<"/", "feedback">>, fmt \o <<"Feedback">>)
    IN  pub(s4, ns \o <<"/", "result">>, fmt \o <<"Result">>)

action_server(self, ns0, fmt) ==
    LET ns == resolve(self, ns0)
        s0 == [self EXCEPT !.action_servers = @ \cup {<<ns, fmt>>}]
        s1 == sub(s0, ns \o <<"/", "goal">>, fmt \o <<"Goal">>)
        s2 == sub(s1, ns \o <<"/", "cancel">>, <<"actionlib_msgs", "/", "GoalID">>)
        s3 == pub(s2, ns \o <<"/", "status">>, <<"actionlib_msgs", "/", "GoalStatusArray">>)
        s4 == pub(s3, ns \o <<"/", "feedback">>, fmt \o <<"Feedback">>)
    IN  pub(s4, ns \o <<"/", "result">>, fmt \o <<"Result">>)

\* action_client, the status topic published instead of subscribed
action_client_status_pub(self, ns0, fmt) ==
    LET ns == resolve(self, ns0)
        s0 == [self EXCEPT !.action_clients = @ \cup {<<ns, fmt>>}]
        s1 == pub(s0, ns \o <<"/", "goal">>, fmt \o <<"Goal">>)
        s2 == pub(s1, ns \o <<"/", "cancel">>, <<"actionlib_msgs", "/", "GoalID">>)
        s3 == pub(s2, ns \o <<"/", "status">>, <<"actionlib_msgs", "/", "GoalStatusArray">>)
        s4 == sub(s3, ns \o <<"/", "feedback">>, fmt \o <<"Feedback">>)
    IN  sub(s4, ns \o <<"/", "result">>, fmt \o <<"Result">>)

action_client(self, ns0, fmt) ==
    LET ns == resolve(self, ns0)
        s0 == [self EXCEPT !.action_clients = @ \cup {<<ns, fmt>>}]
        s1 == pub(s0, ns \o <<"/", "goal">>, fmt \o <<"Goal">>)
        s2 == pub(s1, ns \o <<"/", "cancel">>, <<"actionlib_msgs", "/", "GoalID">>)
        s3 == sub(s2, ns \o <<"/", "status">>, <<"actionlib_msgs", "/", "GoalStatusArray">>)
        s4 == sub(s3, ns \o <<"/", "feedback">>, fmt \o <<"Feedback">>)
    IN  sub(s4, ns \o <<"/", "result">>, fmt \o <<"Result">>)

mark_nodelet(self) ==
    [self EXCEPT !.nodelet = TRUE]

mark_placeholder(self) ==
    [self EXCEPT !.placeholder = TRUE]

(***************************************************************************)
(* The effect API called on one NodeContext bound to a session's store     *)
(***************************************************************************)
InitCtx ==
    /\ models = << >>
    /\ params \in [Sessions -> Stores]
    /\ nodes = [s \in Sessions |-> {}]
    /\ \E id \in NodeIds, remappings \in RemapInputs :
          ctx = NodeContext(id[1], id[2], <<"t1">>, <<"p1">>, << >>, remappings, 1)
    /\ steps = 0
    /\ last = NoCall
    /\ history = << >>
    /\ io = << >>

Provide(service, fmt) ==
    /\ steps < MaxCalls
    /\ ctx' = provide(ctx, service, fmt)
    /\ last' = Call("provide", service, fmt, "None", FALSE, "None", "ok")
    /\ steps' = steps + 1
    /\ UNCHANGED <<models, params, nodes, history, io>>

Use(service, fmt) ==
    /\ steps < MaxCalls
    /\ ctx' = use(ctx, service, fmt)
    /\ last' = Call("use", service, fmt, "None", FALSE, "None", "ok")
    /\ steps' = steps + 1
    /\ UNCHANGED <<models, params, nodes, history, io>>

Sub(topic_name, fmt) ==
    /\ steps < MaxCalls
    /\ ctx' = sub(ctx, topic_name, fmt)
    /\ last' = Call("sub", topic_name, fmt, "None", FALSE, "None", "ok")
    /\ steps' = steps + 1
    /\ UNCHANGED <<models, params, nodes, history, io>>

Pub(topic_name, fmt) ==
    /\ steps < MaxCalls
    /\ ctx' = pub(ctx, topic_name, fmt)
    /\ last' = Call("pub", topic_name, fmt, "None", FALSE, "None", "ok")
    /\ steps' = steps + 1
    /\ UNCHANGED <<models, params, nodes, history, io>>

Read(param, default, dynamic) ==
    /\ steps < MaxCalls
    /\ LET r == read(ctx, params[ctx.params], param, default, dynamic)
       IN  /\ ctx' = r.ctx
           /\ params' = [params EXCEPT ![ctx.params] = r.store]
           /\ last' = Call("read", param, << >>, default, dynamic, r.ret, "ok")
    /\ steps' = steps + 1
    /\ UNCHANGED <<models, nodes, history, io>>

Write(param, val) ==
    /\ steps < MaxCalls
    /\ LET r == write(ctx, params[ctx.params], param, val)
       IN  /\ ctx' = r.ctx
           /\ params' = [params EXCEPT ![ctx.params] = r.store]
           /\ last' = Call("write", param, << >>, val, FALSE, "None", "ok")
    /\ steps' = steps + 1
    /\ UNCHANGED <<models, nodes, history, io>>

ActionServer(ns, fmt) ==
    /\ steps < MaxCalls
    /\ ctx' = action_server(ctx, ns, fmt)
    /\ last' = Call("action_server", ns, fmt, "None", FALSE, "None", "ok")
    /\ steps' = steps + 1
    /\ UNCHANGED <<models, params, nodes, history, io>>

ActionClient(ns, fmt) ==
    /\ steps < MaxCalls
    /\ ctx' = action_client(ctx, ns, fmt)
    /\ last' = Call("action_client", ns, fmt, "None", FALSE, "None", "ok")
    /\ steps' = steps + 1
    /\ UNCHANGED <<models, params, nodes, history, io>>

NextCtx ==
    \/ \E n \in Names, f \in Fmts : Provide(n, f)
    \/ \E n \in Names, f \in Fmts : Use(n, f)
    \/ \E n \in Names, f \in Fmts : Sub(n, f)
    \/ \E n \in Names, f \in Fmts : Pub(n, f)
    \/ \E n \in Names, d \in Defaults, dyn \in BOOLEAN : Read(n, d, dyn)
    \/ \E n \in Names, v \in Vals : Write(n, v)
    \/ \E n \in Names, f \in Fmts : ActionServer(n, f)
    \/ \E n \in Names, f \in Fmts : ActionClient(n, f)

SpecCtx == InitCtx /\ [][NextCtx]_vars

(***************************************************************************)
(* Model: the registry of node-type behaviours                             *)
(***************************************************************************)
PLACEHOLDER == <<"PLACEHOLDER">>

Model(package, name, definition) ==
    [package |-> package, name |-> name, definition |-> definition]

NoModel == Model(<< >>, << >>, "None")

\* register, a registered key overwritten
register_overwrite(ms, package, name, definition) ==
    [models |-> [k \in (DOMAIN ms) \cup {<<package, name>>} |->
                    IF k = <<package, name>>
                    THEN [package |-> package, name |-> name, definition |-> definition]
                    ELSE ms[k]],
     err |-> "ok"]

register(ms, package, name, definition) ==
    LET key == <<package, name>>
    IN  IF key \in DOMAIN ms
        THEN [models |-> ms, err |-> "Exception"]
        ELSE [models |-> setitem(ms, key, Model(package, name, definition)),
              err |-> "ok"]

\* find, the registered Model taken out of the registry by the lookup
find_consume(ms, package, name) ==
    LET key == <<package, name>>
        phkey == <<PLACEHOLDER, PLACEHOLDER>>
    IN  IF key \in DOMAIN ms
        THEN [models |-> [k \in (DOMAIN ms) \ {key} |-> ms[k]],
              ret |-> ms[key], err |-> "ok"]
        ELSE IF phkey \in DOMAIN ms
             THEN LET ph == [ms[phkey] EXCEPT !.package = package, !.name = name]
                  IN  [models |-> [k \in DOMAIN ms |-> IF k = phkey THEN ph ELSE ms[k]],
                       ret |-> ph, err |-> "ok"]
             ELSE [models |-> ms, ret |-> [package |-> << >>, name |-> << >>,
                                             definition |-> "None"],
                   err |-> "KeyError"]

\* find hands back the registered Model; on a missing key it renames the
\* Model stored under (PLACEHOLDER, PLACEHOLDER) in place and hands that back
find(ms, package, name) ==
    LET key == <<package, name>>
        phkey == <<PLACEHOLDER, PLACEHOLDER>>
    IN  IF key \in DOMAIN ms
        THEN [models |-> ms, ret |-> ms[key], err |-> "ok"]
        ELSE IF phkey \in DOMAIN ms
             THEN LET ph == [ms[phkey] EXCEPT !.package = package, !.name = name]
                  IN  [models |-> setitem(ms, phkey, ph), ret |-> ph, err |-> "ok"]
             ELSE [models |-> ms, ret |-> NoModel, err |-> "KeyError"]

(***************************************************************************)
(* Behaviours: what a registered definition calls on its NodeContext.      *)
(* The definitions are those of the end-to-end property (a node type that  *)
(* publishes /x, one that subscribes to /x), the placeholder behaviour,    *)
(* one that writes, reads and provides, and one that publishes the topic   *)
(* named by the parameter /a it reads.                                     *)
(***************************************************************************)
EffectCall(op, name, fmt, val, dynamic) ==
    [op |-> op, name |-> name, fmt |-> fmt, val |-> val, dynamic |-> dynamic]

Definitions == {"pub_x", "sub_x", "placeholder", "param_rw", "pub_param"}

Body(definition) ==
    CASE definition = "pub_x" ->
           << EffectCall("pub", <<"/", "x">>, <<"T">>, "None", FALSE) >>
      [] definition = "sub_x" ->
           << EffectCall("sub", <<"/", "x">>, <<"T">>, "None", FALSE) >>
      [] definition = "placeholder" ->
           << EffectCall("mark_placeholder", << >>, << >>, "None", FALSE) >>
      [] definition = "param_rw" ->
           << EffectCall("write", <<"~", "p">>, << >>, "v1", FALSE),
              EffectCall("read", <<"~", "p">>, << >>, "v2", TRUE),
              EffectCall("provide", <<"srv">>, <<"S">>, "None", FALSE) >>
      [] definition = "pub_param" ->
           << EffectCall("pub_read", <<"/", "a">>, <<"T">>, "v2", FALSE) >>

\* one call of the definition on the context
apply(call, self, store) ==
    CASE call.op = "provide" ->
           [ctx |-> provide(self, call.name, call.fmt), store |-> store]
      [] call.op = "use" ->
           [ctx |-> use(self, call.name, call.fmt), store |-> store]
      [] call.op = "sub" ->
           [ctx |-> sub(self, call.name, call.fmt), store |-> store]
      [] call.op = "pub" ->
           [ctx |-> pub(self, call.name, call.fmt), store |-> store]
      [] call.op = "read" ->
           LET r == read(self, store, call.name, call.val, call.dynamic)
           IN  [ctx |-> r.ctx, store |-> r.store]
      [] call.op = "write" ->
           write(self, store, call.name, call.val)
      [] call.op = "pub_read" ->
           LET r == read(self, store, call.name, call.val, call.dynamic)
           IN  [ctx |-> pub(r.ctx, <<"/", r.ret>>, call.fmt), store |-> r.store]
      [] call.op = "action_server" ->
           [ctx |-> action_server(self, call.name, call.fmt), store |-> store]
      [] call.op = "action_client" ->
           [ctx |-> action_client(self, call.name, call.fmt), store |-> store]
      [] call.op = "mark_nodelet" ->
           [ctx |-> mark_nodelet(self), store |-> store]
      [] call.op = "mark_placeholder" ->
           [ctx |-> mark_placeholder(self), store |-> store]

RECURSIVE run(_, _, _)
run(calls, self, store) ==
    IF calls = << >> THEN [ctx |-> self, store |-> store]
    ELSE LET r == apply(Head(calls), self, store)
         IN  run(Tail(calls), r.ctx, r.store)

\* eval, the definition not called
eval_nothing(model, self, store) ==
    [ctx |-> self, store |-> store]

\* Model.eval: the definition called on the context
eval(model, self, store) ==
    run(Body(model.definition), self, store)

(***************************************************************************)
(* str methods used by Interpreter.load, on lexeme sequences               *)
(***************************************************************************)
RECURSIVE lstrip(_)
lstrip(s) ==
    IF s # << >> /\ Head(s) = " " THEN lstrip(Tail(s)) ELSE s

RECURSIVE rstrip(_)
rstrip(s) ==
    IF s # << >> /\ s[Len(s)] = " " THEN rstrip(SubSeq(s, 1, Len(s) - 1)) ELSE s

strip(s) ==
    rstrip(lstrip(s))

startswith(s, prefix) ==
    /\ Len(s) >= Len(prefix)
    /\ SubSeq(s, 1, Len(prefix)) = prefix

\* s.partition(sep): <<before, sep, after>> at the first sep, else <<s, '', ''>>
partition(s, sep) ==
    IF \E i \in 1..Len(s) : s[i] = sep
    THEN LET i == CHOOSE j \in 1..Len(s) :
                      s[j] = sep /\ \A k \in 1..(j - 1) : s[k] # sep
         IN  <<SubSeq(s, 1, i - 1), <<sep>>, SubSeq(s, i + 1, Len(s))>>
    ELSE <<s, << >>, << >>>>

\* split, the empty pieces dropped
RECURSIVE split_nonempty(_, _)
split_nonempty(s, sep) ==
    LET p == partition(s, sep)
        piece(x) == IF x = << >> THEN << >> ELSE <<x>>
    IN  IF p[2] = << >> THEN piece(s) ELSE piece(p[1]) \o split_nonempty(p[3], sep)

\* s.split(sep): the pieces between the separators, empty pieces kept
RECURSIVE split(_, _)
split(s, sep) ==
    LET p == partition(s, sep)
    IN  IF p[2] = << >> THEN <<s>> ELSE <<p[1]>> \o split(p[3], sep)

(***************************************************************************)
(* Interpreter                                                             *)
(***************************************************************************)
NODELET == <<"nodelet">>

Outcome(ms, store, summaries, self, err) ==
    [models |-> ms, store |-> store, nodes |-> summaries, ctx |-> self, err |-> err]

\* create_nodelet_manager, the manager summarized as a node
create_nodelet_manager_summarized(ms, store, summaries, self) ==
    [models |-> ms, store |-> store,
     nodes |-> summaries \cup {summarize(NodeContext(<<"manager">>, <<"/">>,
                                    <<"nodelet">>, <<"nodelet">>, << >>, << >>, 1))},
     ctx |-> self, err |-> "ok"]

\* logs only
create_nodelet_manager(ms, store, summaries, self) ==
    Outcome(ms, store, summaries, self, "ok")

\* load: the nodelet branches hand over to load_nodelet, which calls load
\* again with the parsed package and type and an empty argument string
RECURSIVE load(_, _, _, _, _, _, _, _, _, _, _)
load(ms, store, summaries, self, session, pkg, nodetype, name, namespace, remappings, args0) ==
    LET args == strip(args0)
    IN  IF nodetype = NODELET
        THEN IF args = <<"manager">>
             THEN create_nodelet_manager(ms, store, summaries, self)
             ELSE IF startswith(args, <<"standalone", " ">>)
             THEN LET pkg_and_nodetype == partition(args, " ")[3]
                      pt == partition(pkg_and_nodetype, "/")
                  IN  load(ms, store, summaries, self, session,
                           pt[1], pt[3], name, namespace, remappings, << >>)
             ELSE LET toks == split(args, " ")
                  IN  IF Len(toks) # 3
                      THEN Outcome(ms, store, summaries, self, "ValueError")
                      ELSE LET pt == partition(toks[2], "/")
                           IN  load(ms, store, summaries, self, session,
                                    pt[1], pt[3], name, namespace, remappings, << >>)
        ELSE LET f == find(ms, pkg, nodetype)
             IN  IF f.err # "ok"
                 THEN Outcome(f.models, store, summaries, self, "Exception")
                 ELSE LET c == NodeContext(name, namespace, nodetype, pkg, args,
                                           remappings, session)
                          e == eval(f.ret, c, store)
                      IN  Outcome(f.models, e.store,
                                  summaries \cup {summarize(e.ctx)}, e.ctx, "ok")

(***************************************************************************)
(* The registry and the interpreter sessions                               *)
(***************************************************************************)
MaxOps == 3

Packages == {<<"p1">>, <<"p2">>}

Types == {<<"t1">>, <<"t2">>}

RegKeys == {<<(<<"p1">>), (<<"t1">>)>>, <<(<<"p2">>), (<<"t2">>)>>,
            <<PLACEHOLDER, PLACEHOLDER>>}

\* argument strings of nodes
ArgInputs ==
    { << >>,
      <<" ", "manager", " ">>,
      <<"standalone", " ", "p1", "/", "t1">>,
      <<"load", " ", "p2", "/", "t2", " ", "mgr">>,
      <<"load", " ", "p1", "/", "t1">>,
      <<"load", " ", " ", "p1", "/", "t1", " ", "mgr">> }

NoCtx == [name |-> << >>]

Init ==
    /\ models = << >>
    /\ params = [s \in Sessions |-> << >>]
    /\ nodes = [s \in Sessions |-> {}]
    /\ ctx = NoCtx
    /\ steps = 0
    /\ last = NoCall
    /\ history = << >>
    /\ io = << >>

Register(package, name, definition) ==
    /\ steps < MaxOps
    /\ LET r == register(models, package, name, definition)
       IN  /\ models' = r.models
           /\ last' = Call("register", package \o <<"/">> \o name, << >>,
                           definition, FALSE, "None", r.err)
    /\ steps' = steps + 1
    /\ UNCHANGED <<params, nodes, ctx, history, io>>

Find(package, name) ==
    /\ steps < MaxOps
    /\ LET r == find(models, package, name)
       IN  /\ models' = r.models
           /\ last' = Call("find", package \o <<"/">> \o name, << >>,
                           "None", FALSE, r.ret.definition, r.err)
    /\ steps' = steps + 1
    /\ UNCHANGED <<params, nodes, ctx, history, io>>

Load(s, pkg, nodetype, name, namespace, remappings, args) ==
    /\ steps < MaxOps
    /\ LET r == load(models, params[s], nodes[s], ctx, s,
                     pkg, nodetype, name, namespace, remappings, args)
       IN  /\ models' = r.models
           /\ params' = [params EXCEPT ![s] = r.store]
           /\ nodes' = [nodes EXCEPT ![s] = r.nodes]
           /\ ctx' = r.ctx
           /\ last' = Call("load", pkg \o <<"/">> \o nodetype, args,
                           "None", FALSE, "None", r.err)
    /\ steps' = steps + 1
    /\ UNCHANGED <<history, io>>

Next ==
    \/ \E k \in RegKeys, d \in Definitions : Register(k[1], k[2], d)
    \/ \E p \in Packages, t \in Types : Find(p, t)
    \/ \E s \in Sessions, p \in Packages, t \in Types, n \in NodeNames,
          r \in {<< >>, << <<(<<"/", "x">>), (<<"y">>)>> >>} :
          Load(s, p, t, n, <<"/">>, r, << >>)
    \/ \E s \in Sessions, n \in NodeNames, a \in ArgInputs :
          Load(s, <<"nodelet">>, NODELET, n, <<"/">>, << >>, a)

Spec == Init /\ [][Next]_vars

(***************************************************************************)
(* Interpreter.launch: the parsed configuration is what the launch file    *)
(* reader hands back, its params a sequence of (key, value) and its nodes  *)
(* a sequence of node descriptors                                          *)
(***************************************************************************)
NodeConfig(package, typ, name, namespace, remappings, args) ==
    [package |-> package, typ |-> typ, name |-> name, namespace |-> namespace,
     remappings |-> remappings, args |-> args]

\* for key, value in config.params.items(): self.__params[key] = value
RECURSIVE load_params(_, _)
load_params(store, items) ==
    IF items = << >> THEN store
    ELSE load_params(setitem(store, Head(items)[1], Head(items)[2]), Tail(items))

\* {old: new for (old, new) in node.remappings}: the items of the dictionary,
\* a repeated key keeping its place and taking the later value
RECURSIVE dict_items(_)
dict_items(pairs) ==
    IF pairs = << >> THEN << >>
    ELSE LET n == Len(pairs)
             rest == dict_items(SubSeq(pairs, 1, n - 1))
             p == pairs[n]
         IN  IF \E i \in 1..Len(rest) : rest[i][1] = p[1]
             THEN [i \in 1..Len(rest) |-> IF rest[i][1] = p[1] THEN p ELSE rest[i]]
             ELSE Append(rest, p)

\* load_nodes, a failing node logged and the nodes after it loaded all the same
RECURSIVE load_nodes_keep_going(_, _, _, _, _, _)
load_nodes_keep_going(ms, store, summaries, self, session, descs) ==
    IF descs = << >> THEN [models |-> ms, store |-> store, nodes |-> summaries,
                           ctx |-> self, err |-> "ok"]
    ELSE LET node == Head(descs)
             r == load(ms, store, summaries, self, session, node.package, node.typ,
                       node.name, node.namespace, dict_items(node.remappings),
                       node.args)
             t == load_nodes_keep_going(r.models, r.store, r.nodes, r.ctx, session,
                                        Tail(descs))
         IN  IF r.err # "ok" THEN [t EXCEPT !.err = r.err] ELSE t

\* load_nodes, the summaries of the nodes loaded taken back on a failure
RECURSIVE load_nodes_rollback(_, _, _, _, _, _)
load_nodes_rollback(ms, store, summaries, self, session, descs) ==
    IF descs = << >> THEN [models |-> ms, store |-> store, nodes |-> summaries,
                           ctx |-> self, err |-> "ok"]
    ELSE LET node == Head(descs)
             r == load(ms, store, summaries, self, session, node.package, node.typ,
                       node.name, node.namespace, dict_items(node.remappings),
                       node.args)
             t == load_nodes_rollback(r.models, r.store, r.nodes, r.ctx, session,
                                      Tail(descs))
         IN  IF r.err # "ok" THEN r
             ELSE IF t.err # "ok" THEN [t EXCEPT !.nodes = summaries] ELSE t

\* for node in config.nodes: the nodes loaded in order, the first failure
\* logged and raised again
RECURSIVE load_nodes(_, _, _, _, _, _)
load_nodes(ms, store, summaries, self, session, descs) ==
    IF descs = << >> THEN Outcome(ms, store, summaries, self, "ok")
    ELSE LET node == Head(descs)
             r == load(ms, store, summaries, self, session, node.package, node.typ,
                       node.name, node.namespace, dict_items(node.remappings),
                       node.args)
         IN  IF r.err # "ok" THEN r
             ELSE load_nodes(r.models, r.store, r.nodes, r.ctx, session, Tail(descs))

\* launch, the parameters stored after the nodes are loaded
launch_nodes_first(ms, store, summaries, self, session, config) ==
    IF config.sed # "ok"
    THEN [models |-> ms, store |-> store, nodes |-> summaries, ctx |-> self,
          err |-> "CalledProcessError", io |-> <<"sed">>]
    ELSE LET r == load_nodes(ms, store, summaries, self, session, config.nodes)
         IN  [models |-> r.models,
              store |-> IF r.err = "ok" THEN load_params(r.store, config.params)
                        ELSE r.store,
              nodes |-> r.nodes,
              ctx |-> r.ctx, err |-> r.err, io |-> <<"sed", "read">>]

\* launch, the file read before the shell command is run on it
launch_read_first(ms, store, summaries, self, session, config) ==
    LET r == load_nodes(ms, load_params(store, config.params), summaries, self,
                        session, config.nodes)
    IN  [models |-> r.models, store |-> r.store, nodes |-> r.nodes, ctx |-> r.ctx,
         err |-> IF config.sed # "ok" THEN "CalledProcessError" ELSE r.err,
         io |-> <<"read", "sed">>]

\* launch: the shell runs the sed command on the file (check_output raises
\* when the command fails), the reader reads the file, the parameters are
\* stored and the nodes loaded
launch(ms, store, summaries, self, session, config) ==
    IF config.sed # "ok"
    THEN [models |-> ms, store |-> store, nodes |-> summaries, ctx |-> self,
          err |-> "CalledProcessError", io |-> <<"sed">>]
    ELSE ("io" :> <<"sed", "read">>)
            @@ load_nodes(ms, load_params(store, config.params), summaries,
                          self, session, config.nodes)

(***************************************************************************)
(* Two Interpreter sessions that share the registry, populated before the  *)
(* sessions begin                                                          *)
(***************************************************************************)
MaxLaunches == 3

Interpreters == {1, 2}

\* the registry after the given registrations, in order
RECURSIVE populate(_)
populate(regs) ==
    IF regs = << >> THEN << >>
    ELSE LET n == Len(regs)
         IN  register(populate(SubSeq(regs, 1, n - 1)),
                      regs[n][1], regs[n][2], regs[n][3]).models

Registries ==
    { populate(<< <<(<<"p1">>), (<<"t1">>), "pub_x">>,
                  <<(<<"p2">>), (<<"t2">>), "sub_x">> >>),
      populate(<< <<(<<"p1">>), (<<"t1">>), "pub_x">>,
                  <<(<<"p2">>), (<<"t2">>), "sub_x">>,
                  <<PLACEHOLDER, PLACEHOLDER, "placeholder">> >>),
      populate(<< <<(<<"p1">>), (<<"t1">>), "param_rw">>,
                  <<PLACEHOLDER, PLACEHOLDER, "placeholder">> >>),
      populate(<< <<(<<"p1">>), (<<"t1">>), "pub_param">>,
                  <<(<<"p2">>), (<<"t2">>), "sub_x">> >>) }

NodeA == NodeConfig(<<"p1">>, <<"t1">>, <<"a">>, <<"/">>, << >>, << >>)

NodeB == NodeConfig(<<"p2">>, <<"t2">>, <<"b">>, <<"/">>, << >>, << >>)

\* a node of a type that no registration names
NodeX == NodeConfig(<<"p3">>, <<"t3">>, <<"x">>, <<"/">>, << >>, << >>)

Nodelet(name, args) ==
    NodeConfig(<<"nodelet">>, NODELET, name, <<"/">>, << >>, args)

\* a launch file: what the reader parses from it, and how the sed command
\* run on it ends
Config(id, items, descs) ==
    [op |-> "launch", id |-> id, sed |-> "ok", params |-> items, nodes |-> descs]

Configs ==
    { Config("AB", << >>, <<NodeA, NodeB>>),
      Config("AXB", << <<(<<"/", "a">>), "v1">> >>, <<NodeA, NodeX, NodeB>>),
      Config("nodelets", << >>,
             << Nodelet(<<"mgr">>, <<"manager">>),
                Nodelet(<<"c">>, <<"load", " ", "p2", "/", "t2", " ", "mgr">>),
                Nodelet(<<"d">>, <<"load", " ", "p1", "/", "t1">>),
                NodeA >>),
      Config("remapped", << >>,
             << [NodeA EXCEPT !.remappings =
                    << <<(<<"/", "x">>), (<<"y">>)>>, <<(<<"x">>), (<<"z">>)>>,
                       <<(<<"/", "x">>), (<<"w">>)>> >>] >>),
      [Config("unwritable", << <<(<<"/", "a">>), "v1">> >>, <<NodeA>>)
          EXCEPT !.sed = "fails"] }

\* a load call made on an Interpreter directly
LoadCall(desc) ==
    [op |-> "load", id |-> "load", sed |-> "ok", params |-> << >>, nodes |-> <<desc>>]

InitLaunch ==
    /\ models \in Registries
    /\ params = [s \in Interpreters |-> << >>]
    /\ nodes = [s \in Interpreters |-> {}]
    /\ ctx = NoCtx
    /\ steps = 0
    /\ last = NoCall
    /\ history = [s \in Interpreters |-> << >>]
    /\ io = << >>

\* Launch, the result set kept in one place for every session
Launch_shared(s, config) ==
    /\ steps < MaxLaunches
    /\ LET r == launch(models, params[s], nodes[s], ctx, s, config)
       IN  /\ models' = r.models
           /\ params' = [params EXCEPT ![s] = r.store]
           /\ nodes' = [t \in Interpreters |-> r.nodes]
           /\ ctx' = r.ctx
           /\ last' = Call("launch", <<config.id>>, << >>, "None", FALSE, "None", r.err)
           /\ io' = r.io
    /\ history' = [history EXCEPT ![s] = Append(@, config)]
    /\ steps' = steps + 1

Launch(s, config) ==
    /\ steps < MaxLaunches
    /\ LET r == launch(models, params[s], nodes[s], ctx, s, config)
       IN  /\ models' = r.models
           /\ params' = [params EXCEPT ![s] = r.store]
           /\ nodes' = [nodes EXCEPT ![s] = r.nodes]
           /\ ctx' = r.ctx
           /\ last' = Call("launch", <<config.id>>, << >>, "None", FALSE, "None", r.err)
           /\ io' = r.io
    /\ history' = [history EXCEPT ![s] = Append(@, config)]
    /\ steps' = steps + 1

LoadNode(s, desc) ==
    /\ steps < MaxLaunches
    /\ LET r == load(models, params[s], nodes[s], ctx, s, desc.package, desc.typ,
                     desc.name, desc.namespace, desc.remappings, desc.args)
       IN  /\ models' = r.models
           /\ params' = [params EXCEPT ![s] = r.store]
           /\ nodes' = [nodes EXCEPT ![s] = r.nodes]
           /\ ctx' = r.ctx
           /\ last' = Call("load", desc.package \o <<"/">> \o desc.typ, desc.args,
                           "None", FALSE, "None", r.err)
    /\ history' = [history EXCEPT ![s] = Append(@, LoadCall(desc))]
    /\ steps' = steps + 1
    /\ UNCHANGED io

NextLaunch ==
    \/ \E s \in Interpreters, config \in Configs : Launch(s, config)
    \/ \E s \in Interpreters, desc \in {NodeB, NodeX} : LoadNode(s, desc)

SpecLaunch == InitLaunch /\ [][NextLaunch]_vars

(***************************************************************************)
(* What the specification says of a call, stated apart from the code       *)
(***************************************************************************)
\* the fully qualified form of a name for a node of the given name
Qualified(node, name) ==
    CASE Head(name) = "/" -> name
      [] Head(name) = "~" -> <<"/">> \o node \o <<"/">> \o Tail(name)
      [] OTHER -> <<"/">> \o name

\* the name a remapping table substitutes for a qualified name
Target(table, name) ==
    IF name \in DOMAIN table THEN table[name] ELSE name

\* this step is a call of op
CallStep(op) ==
    steps' = steps + 1 /\ last'.op = op

GoalID == <<"actionlib_msgs", "/", "GoalID">>

GoalStatusArray == <<"actionlib_msgs", "/", "GoalStatusArray">>

ResolveInputs ==
    Names \cup {<<"~">>, <<"/">>, <<"a", "/", "b">>, <<"~", "a", "/", "b">>,
                <<"/", "ns", "/", "a">>}

(***************************************************************************)
(* C1: for every non-empty name and every node name, resolve returns the   *)
(* name unchanged if it starts with '/', '/<node-name>/<rest>' if it       *)
(* starts with '~', and '/<name>' otherwise; the node's namespace is never *)
(* part of the result.  The name a write_parameter call records is that    *)
(* qualified name.                                                         *)
(***************************************************************************)
C1_Resolve ==
    /\ \A n \in ResolveInputs :
          /\ resolve(ctx, n) = Qualified(ctx.name, n)
          /\ \A other \in Namespaces :
                resolve([ctx EXCEPT !.namespace = other], n) = resolve(ctx, n)
    /\ last.op = "write" => Qualified(ctx.name, last.name) \in ctx.writes

C1_Witness ==
    /\ last.op = "write"
    /\ Head(last.name) = "~"
    /\ ctx.namespace = <<"/", "ns">>
    /\ ctx.name = <<"m">>
    /\ <<"/", "m", "/", "a">> \in ctx.writes

(***************************************************************************)
(* C2: when x resolves to a source of the remapping table (built by        *)
(* resolving both sides of every raw pair), publish(x, T) adds (target, T) *)
(* and nothing else to the publications of the summary; (source, T) is not *)
(* added.                                                                  *)
(***************************************************************************)
C2_PublishRemapped ==
    [][ (/\ CallStep("pub")
         /\ Qualified(ctx.name, last'.name) \in DOMAIN ctx.remappings)
        => LET source == Qualified(ctx.name, last'.name)
               target == ctx.remappings[source]
           IN  /\ summarize(ctx').pubs = summarize(ctx).pubs \cup {<<target, last'.fmt>>}
               /\ target # source =>
                     <<source, last'.fmt>> \notin
                         (summarize(ctx').pubs \ summarize(ctx).pubs) ]_vars

C2_Witness ==
    /\ last.op = "pub"
    /\ last.name = <<"a">>
    /\ ctx.remappings = [k \in {<<"/", "a">>} |-> <<"/", "b">>]
    /\ summarize(ctx).pubs = {<< <<"/", "b">>, last.fmt >>}

(***************************************************************************)
(* C3 as stated: the name every effect call records is the resolved name   *)
(* with the remapping table applied.                                       *)
(***************************************************************************)
C3_EveryCallRemaps ==
    LET n == Target(ctx.remappings, Qualified(ctx.name, last.name))
    IN  /\ last.op = "pub" => <<n, last.fmt>> \in ctx.pubs
        /\ last.op = "sub" => <<n, last.fmt>> \in ctx.subs
        /\ last.op = "provide" => <<n, last.fmt>> \in ctx.provides
        /\ last.op = "use" => <<n, last.fmt>> \in ctx.uses
        /\ last.op = "read" => <<n, last.dynamic>> \in ctx.reads
        /\ last.op = "write" => n \in ctx.writes
        /\ last.op = "action_server" => <<n, last.fmt>> \in ctx.action_servers
        /\ last.op = "action_client" => <<n, last.fmt>> \in ctx.action_clients

(***************************************************************************)
(* C3 amended: publish, subscribe, provide_service and use_service record  *)
(* the resolved name with the remapping table applied; read_parameter,     *)
(* write_parameter, provide_action and use_action record their entry under *)
(* the resolved name, the remapping table not applied to it.               *)
(***************************************************************************)
C3_TopicsAndServicesRemap ==
    LET q == Qualified(ctx.name, last.name)
        n == Target(ctx.remappings, q)
    IN  /\ last.op = "pub" => <<n, last.fmt>> \in ctx.pubs
        /\ last.op = "sub" => <<n, last.fmt>> \in ctx.subs
        /\ last.op = "provide" => <<n, last.fmt>> \in ctx.provides
        /\ last.op = "use" => <<n, last.fmt>> \in ctx.uses
        /\ last.op = "read" => <<q, last.dynamic>> \in ctx.reads
        /\ last.op = "write" => q \in ctx.writes
        /\ last.op = "action_server" => <<q, last.fmt>> \in ctx.action_servers
        /\ last.op = "action_client" => <<q, last.fmt>> \in ctx.action_clients
        /\ (steps = 1 /\ n # q) =>
              /\ last.op \in {"pub", "sub", "provide", "use"} =>
                    <<q, last.fmt>> \notin
                        (ctx.pubs \cup ctx.subs \cup ctx.provides \cup ctx.uses)
              /\ last.op = "read" => <<n, last.dynamic>> \notin ctx.reads
              /\ last.op = "write" => n \notin ctx.writes
              /\ last.op = "action_server" => <<n, last.fmt>> \notin ctx.action_servers
              /\ last.op = "action_client" => <<n, last.fmt>> \notin ctx.action_clients

C3_Witness ==
    /\ last.op = "write"
    /\ Qualified(ctx.name, last.name) \in DOMAIN ctx.remappings
    /\ Qualified(ctx.name, last.name) \in ctx.writes
    /\ ctx.remappings[Qualified(ctx.name, last.name)] \notin ctx.writes

(***************************************************************************)
(* C4 as stated: after write_parameter(n, v) the session's parameter       *)
(* server holds v under the resolved name, so that a read of that key      *)
(* returns v and not the default.                                          *)
(***************************************************************************)
C4_WriteStores ==
    last.op = "write" =>
        LET key == Qualified(ctx.name, last.name)
            store == params[ctx.params]
        IN  /\ key \in DOMAIN store
            /\ store[key] = last.val
            /\ \A d \in Defaults : read(ctx, store, last.name, d, FALSE).ret = last.val

(***************************************************************************)
(* C5: read_parameter(name, default, dynamic) adds (resolved name,         *)
(* dynamic) to the parameter reads, returns the stored value when the      *)
(* resolved key is present and default otherwise, and leaves every         *)
(* parameter server unchanged.                                             *)
(***************************************************************************)
C5_Read ==
    [][ CallStep("read")
        => LET key == Qualified(ctx.name, last'.name)
               store == params[ctx.params]
           IN  /\ ctx'.reads = ctx.reads \cup {<<key, last'.dynamic>>}
               /\ last'.ret = IF key \in DOMAIN store THEN store[key] ELSE last'.val
               /\ params' = params ]_vars

C5_Witness ==
    /\ last.op = "read"
    /\ last.name = <<"~", "a">>
    /\ last.val = "v2"
    /\ last.ret = "v2"
    /\ last.dynamic
    /\ <<(<<"/">> \o ctx.name \o <<"/", "a">>), TRUE>> \in ctx.reads
    /\ <<"/", "a">> \in DOMAIN params[ctx.params]
    /\ (<<"/">> \o ctx.name \o <<"/", "a">>) \notin DOMAIN params[ctx.params]

(***************************************************************************)
(* The five topics of an action, for a resolved namespace ns               *)
(***************************************************************************)
GoalSide(ns, fmt) ==
    { <<ns \o <<"/", "goal">>, fmt \o <<"Goal">>>>,
      <<ns \o <<"/", "cancel">>, GoalID>> }

ResultSide(ns, fmt) ==
    { <<ns \o <<"/", "status">>, GoalStatusArray>>,
      <<ns \o <<"/", "feedback">>, fmt \o <<"Feedback">>>>,
      <<ns \o <<"/", "result">>, fmt \o <<"Result">>>> }

Remapped(table, entries) ==
    { <<Target(table, e[1]), e[2]>> : e \in entries }

\* the context with nothing recorded yet
Fresh(self) ==
    [self EXCEPT !.uses = {}, !.provides = {}, !.subs = {}, !.pubs = {},
                 !.action_servers = {}, !.action_clients = {},
                 !.reads = {}, !.writes = {}]

(***************************************************************************)
(* C6 as stated: provide_action(ns, fmt) on a fresh context yields the     *)
(* action server (resolve(ns), fmt), exactly the subscriptions ns/goal     *)
(* and ns/cancel and exactly the publications ns/status, ns/feedback and   *)
(* ns/result with their types, ns the resolved namespace; no other         *)
(* interaction set changes.                                                *)
(***************************************************************************)
C6_FiveTopicsAsNamed ==
    (steps = 1 /\ last.op = "action_server") =>
        LET ns == Qualified(ctx.name, last.name)
        IN  /\ ctx.action_servers = {<<ns, last.fmt>>}
            /\ ctx.subs = GoalSide(ns, last.fmt)
            /\ ctx.pubs = ResultSide(ns, last.fmt)
            /\ ctx.uses = {} /\ ctx.provides = {} /\ ctx.action_clients = {}
            /\ ctx.reads = {} /\ ctx.writes = {}

(***************************************************************************)
(* C6 amended: provide_action(ns, fmt) adds (resolve(ns), fmt) to the      *)
(* action servers, adds to the subscriptions exactly ns/goal and ns/cancel *)
(* and to the publications exactly ns/status, ns/feedback and ns/result    *)
(* with their types, each of the five topic names replaced by its target   *)
(* when it is a source of the node's remapping table; no other             *)
(* interaction set changes.                                                *)
(***************************************************************************)
C6_FiveTopicsRemapped ==
    [][ CallStep("action_server")
        => LET ns == Qualified(ctx.name, last'.name)
               fmt == last'.fmt
           IN  /\ ctx'.action_servers = ctx.action_servers \cup {<<ns, fmt>>}
               /\ ctx'.subs = ctx.subs \cup Remapped(ctx.remappings, GoalSide(ns, fmt))
               /\ ctx'.pubs = ctx.pubs \cup Remapped(ctx.remappings, ResultSide(ns, fmt))
               /\ ctx'.uses = ctx.uses
               /\ ctx'.provides = ctx.provides
               /\ ctx'.action_clients = ctx.action_clients
               /\ ctx'.reads = ctx.reads
               /\ ctx'.writes = ctx.writes
               /\ ctx'.remappings = ctx.remappings ]_vars

C6_Witness ==
    /\ steps = 1
    /\ last.op = "action_server"
    /\ last.name = <<"a">>
    /\ last.fmt = <<"Example">>
    /\ <<"/", "a", "/", "goal">> \in DOMAIN ctx.remappings
    /\ ctx.action_servers = {<< <<"/", "a">>, <<"Example">> >>}
    /\ ctx.subs = { << <<"/", "b">>, <<"Example", "Goal">> >>,
                    << <<"/", "a", "/", "cancel">>, GoalID >> }
    /\ Cardinality(ctx.pubs) = 3

(***************************************************************************)
(* C7: use_action(ns, fmt) mirrors provide_action(ns, fmt): on fresh       *)
(* contexts of the same node and remappings, the publications of           *)
(* use_action are the subscriptions of provide_action and the other way    *)
(* round, and (resolve(ns), fmt) is recorded in the action clients, not    *)
(* in the action servers.                                                  *)
(***************************************************************************)
C7_ClientMirrorsServer ==
    (steps = 1 /\ last.op = "action_client") =>
        LET server == action_server(Fresh(ctx), last.name, last.fmt)
            ns == Qualified(ctx.name, last.name)
        IN  /\ ctx.pubs = server.subs
            /\ ctx.subs = server.pubs
            /\ ctx.pubs = Remapped(ctx.remappings, GoalSide(ns, last.fmt))
            /\ ctx.subs = Remapped(ctx.remappings, ResultSide(ns, last.fmt))
            /\ ctx.action_clients = {<<ns, last.fmt>>}
            /\ ctx.action_servers = {}
            /\ server.action_servers = {<<ns, last.fmt>>}
            /\ server.action_clients = {}

C7_Witness ==
    /\ steps = 1
    /\ last.op = "action_client"
    /\ last.name = <<"~", "a">>
    /\ ctx.name = <<"n">>
    /\ ctx.action_clients = {<< <<"/", "n", "/", "a">>, last.fmt >>}
    /\ Cardinality(ctx.pubs) = 2
    /\ Cardinality(ctx.subs) = 3
    /\ ctx.pubs = action_server(Fresh(ctx), last.name, last.fmt).subs

(***************************************************************************)
(* C8: publish, subscribe, provide_service and use_service are idempotent: *)
(* a call whose (name, format) entry is already recorded leaves the        *)
(* context, and so its summary, unchanged; the same call made twice on a   *)
(* fresh context leaves exactly one entry.                                 *)
(***************************************************************************)
C8_Idempotent ==
    [][ /\ \A op \in {"pub", "sub", "provide", "use"} :
              LET entry == <<Target(ctx.remappings, Qualified(ctx.name, last'.name)),
                             last'.fmt>>
                  recorded == CASE op = "pub" -> ctx.pubs
                                [] op = "sub" -> ctx.subs
                                [] op = "provide" -> ctx.provides
                                [] op = "use" -> ctx.uses
              IN  (CallStep(op) /\ entry \in recorded)
                  => (ctx' = ctx /\ summarize(ctx') = summarize(ctx))
        /\ (/\ steps = 1
            /\ last.op \in {"pub", "sub", "provide", "use"}
            /\ CallStep(last.op)
            /\ last'.name = last.name
            /\ last'.fmt = last.fmt)
           => LET sm == summarize(ctx')
              IN  /\ Cardinality(sm.pubs \cup sm.subs \cup sm.provides \cup sm.uses) = 1
                  /\ last.op = "pub" => Cardinality(sm.pubs) = 1
                  /\ last.op = "sub" => Cardinality(sm.subs) = 1
                  /\ last.op = "provide" => Cardinality(sm.provides) = 1
                  /\ last.op = "use" => Cardinality(sm.uses) = 1 ]_vars

C8_Witness ==
    /\ steps = 2
    /\ last.op = "provide"
    /\ ctx.provides = {<<Target(ctx.remappings, Qualified(ctx.name, last.name)), last.fmt>>}
    /\ ctx.pubs = {} /\ ctx.subs = {} /\ ctx.uses = {}
    /\ ctx.reads = {} /\ ctx.writes = {}
    /\ ctx.action_servers = {} /\ ctx.action_clients = {}

\* the (package, name) key a register, find or load call was made with
CallKey(call) ==
    LET p == partition(call.name, "/")
    IN  <<p[1], p[3]>>

(***************************************************************************)
(* C9: register on a key that is already registered fails with an error    *)
(* and leaves the registry unchanged, so that the key still maps to the    *)
(* behaviour registered first and find still returns it; no call ever      *)
(* replaces or removes the behaviour registered under a key.               *)
(***************************************************************************)
C9_DuplicateRegister ==
    [][ /\ (CallStep("register") /\ CallKey(last') \in DOMAIN models)
           => /\ last'.err = "Exception"
              /\ models' = models
              /\ find(models', CallKey(last')[1], CallKey(last')[2]).ret
                    = models[CallKey(last')]
        /\ (CallStep("register") /\ CallKey(last') \notin DOMAIN models)
           => /\ last'.err = "ok"
              /\ models'[CallKey(last')].definition = last'.val
        /\ \A k \in DOMAIN models :
              /\ k \in DOMAIN models'
              /\ models'[k].definition = models[k].definition ]_vars

C9_Witness ==
    /\ last.op = "register"
    /\ last.err = "Exception"
    /\ CallKey(last) = <<(<<"p1">>), (<<"t1">>)>>
    /\ last.val = "sub_x"
    /\ models[CallKey(last)] = Model(<<"p1">>, <<"t1">>, "pub_x")

(***************************************************************************)
(* C10 as stated: find on a key that is not registered returns a           *)
(* placeholder behaviour and does not fail in any state of the registry,   *)
(* and load of a node of an unregistered type completes and adds a         *)
(* summary.                                                                *)
(***************************************************************************)
C10_FindNeverFails ==
    /\ last.op = "find" => (last.err = "ok" /\ last.ret # "None")
    /\ (last.op = "load" /\ CallKey(last)[2] # NODELET) =>
          /\ last.err = "ok"
          /\ \E s \in Sessions : \E n \in nodes[s] :
                n.package = CallKey(last)[1] /\ n.kind = CallKey(last)[2]

\* the key under which the registry keeps its placeholder Model
PlaceholderKey == <<PLACEHOLDER, PLACEHOLDER>>

\* the number of space-separated tokens of an argument string
Tokens(a) ==
    Cardinality({i \in 1..Len(a) : a[i] = " "}) + 1

\* a load call that goes on to evaluate a behaviour: not a nodelet manager
Evaluates(call) ==
    /\ call.op = "load"
    /\ ~(CallKey(call)[2] = NODELET /\ strip(call.fmt) = <<"manager">>)

(***************************************************************************)
(* C11 as stated: find never mutates state shared between lookups: the     *)
(* registry is the same after a find as before it, and the placeholder     *)
(* handed back for a missing key keeps the package and node type it was    *)
(* asked for when a later find asks for a different missing key.           *)
(***************************************************************************)
C11_FindSharesNothing ==
    [][ CallStep("find")
        => /\ models' = models
           /\ (/\ last.op = "find"
               /\ last.err = "ok"
               /\ CallKey(last) \notin DOMAIN models
               /\ CallKey(last') \notin DOMAIN models
               /\ CallKey(last') # CallKey(last))
              => LET held == models'[PlaceholderKey]
                 IN  /\ held.package = CallKey(last)[1]
                     /\ held.name = CallKey(last)[2] ]_vars

(***************************************************************************)
(* C12 as stated: the summary a load adds for a node whose (package, node  *)
(* type) is not registered has its placeholder flag true; the summary of a *)
(* node evaluated with a registered behaviour has it false.                *)
(***************************************************************************)
C12_PlaceholderFlag ==
    [][ (/\ CallStep("load")
         /\ last'.err = "ok"
         /\ CallKey(last')[2] # NODELET)
        => \E n \in nodes'[ctx'.params] :
              /\ n.name = ctx'.name
              /\ n.package = CallKey(last')[1]
              /\ n.kind = CallKey(last')[2]
              /\ n.placeholder = (CallKey(last') \notin DOMAIN models) ]_vars

(***************************************************************************)
(* C13: load with node type 'nodelet' and an argument string that trims to *)
(* 'manager' completes, looks nothing up in the registry, evaluates no     *)
(* behaviour and leaves every result set and parameter server unchanged.   *)
(***************************************************************************)
C13_ManagerNoEffect ==
    [][ (/\ CallStep("load")
         /\ CallKey(last')[2] = NODELET
         /\ strip(last'.fmt) = <<"manager">>)
        => /\ last'.err = "ok"
           /\ models' = models
           /\ nodes' = nodes
           /\ params' = params
           /\ ctx' = ctx ]_vars

C13_Witness ==
    /\ last.op = "load"
    /\ last.err = "ok"
    /\ CallKey(last)[2] = NODELET
    /\ last.fmt = <<" ", "manager", " ">>
    /\ PlaceholderKey \in DOMAIN models
    /\ models[PlaceholderKey].package = PLACEHOLDER
    /\ \A s \in Sessions : nodes[s] = {}
    /\ ctx = NoCtx

(***************************************************************************)
(* C14 as stated: a nodelet loaded with 'standalone <pkg>/<type>' or       *)
(* 'load <pkg>/<type> <manager>' yields the summary of an ordinary node of *)
(* the same package, type, name, namespace and remappings with the nodelet *)
(* flag true, the ordinary node's flag being false.                        *)
(***************************************************************************)
C14_NodeletFlag ==
    (/\ last.op = "load"
     /\ last.err = "ok"
     /\ CallKey(last)[2] = NODELET
     /\ strip(last.fmt) # <<"manager">>)
    => LET ordinary == load(models, params[ctx.params], {}, ctx, ctx.params,
                            ctx.package, ctx.kind, ctx.name, ctx.namespace,
                            << >>, << >>).nodes
       IN  /\ \A n \in ordinary : ~n.nodelet
           /\ \A n \in ordinary : [n EXCEPT !.nodelet = TRUE] \in nodes[ctx.params]

(***************************************************************************)
(* C15: load with node type 'nodelet' whose trimmed argument string is not *)
(* 'manager', does not start with 'standalone ' and does not have exactly  *)
(* three space-separated tokens fails with a parse error; the failing call *)
(* looks nothing up in the registry and adds no summary.                   *)
(***************************************************************************)
C15_MalformedArgs ==
    [][ (/\ CallStep("load")
         /\ CallKey(last')[2] = NODELET
         /\ strip(last'.fmt) # <<"manager">>
         /\ ~startswith(strip(last'.fmt), <<"standalone", " ">>)
         /\ Tokens(strip(last'.fmt)) # 3)
        => /\ last'.err = "ValueError"
           /\ models' = models
           /\ nodes' = nodes
           /\ params' = params
           /\ ctx' = ctx ]_vars

C15_Witness ==
    /\ last.op = "load"
    /\ last.err = "ValueError"
    /\ last.fmt = <<"load", " ", " ", "p1", "/", "t1", " ", "mgr">>
    /\ Tokens(last.fmt) = 4
    /\ PlaceholderKey \in DOMAIN models
    /\ models[PlaceholderKey].package = PLACEHOLDER
    /\ \A s \in Sessions : nodes[s] = {}

(***************************************************************************)
(* C17: loading a node a second time with the same package, type, name,    *)
(* namespace, remappings and arguments, right after a load of it that      *)
(* completed, completes and leaves the session's result set as the first   *)
(* load left it: the node's summary is in it once, and a result set of one *)
(* summary is still a result set of one summary.                           *)
(***************************************************************************)
C17_ReloadIdempotent ==
    [][ (/\ Evaluates(last)
         /\ last.err = "ok"
         /\ CallStep("load")
         /\ last'.name = last.name
         /\ last'.fmt = last.fmt
         /\ ctx'.name = ctx.name
         /\ ctx'.namespace = ctx.namespace
         /\ ctx'.remappings = ctx.remappings
         /\ ctx'.params = ctx.params)
        => /\ last'.err = "ok"
           /\ nodes' = nodes
           /\ params' = params
           /\ \E n \in nodes'[ctx.params] :
                 /\ n.name = ctx.name
                 /\ n.namespace = ctx.namespace
                 /\ n.package = ctx.package
                 /\ n.kind = ctx.kind
                 /\ n.pubs = ctx.pubs /\ n.subs = ctx.subs
                 /\ n.provides = ctx.provides /\ n.uses = ctx.uses
                 /\ n.reads = ctx.reads /\ n.writes = ctx.writes
           /\ Cardinality(nodes[ctx.params]) = 1
                 => Cardinality(nodes'[ctx.params]) = 1 ]_vars

C17_Witness ==
    /\ steps = 3
    /\ last.op = "load"
    /\ last.err = "ok"
    /\ CallKey(last) = <<(<<"p1">>), (<<"t1">>)>>
    /\ DOMAIN models = {<<(<<"p1">>), (<<"t1">>)>>}
    /\ models[CallKey(last)].definition = "param_rw"
    /\ ctx.name = <<"n">>
    /\ ctx.remappings = << >>
    /\ Cardinality(nodes[ctx.params]) = 1
    /\ \A n \in nodes[ctx.params] :
          n.name = <<"n">> /\ n.writes = {<<"/", "n", "/", "p">>}

(***************************************************************************)
(* C20: for every non-empty name and every node name, resolve's result     *)
(* starts with '/' and resolving it again gives the same name; so every    *)
(* name a call recorded is left as it is by resolve.                       *)
(***************************************************************************)
C20_ResolveIdempotent ==
    /\ \A n \in ResolveInputs :
          /\ Head(resolve(ctx, n)) = "/"
          /\ resolve(ctx, resolve(ctx, n)) = resolve(ctx, n)
    /\ \A w \in ctx.writes : resolve(ctx, w) = w
    /\ \A e \in ctx.reads : resolve(ctx, e[1]) = e[1]
    /\ \A e \in ctx.action_servers \cup ctx.action_clients :
          resolve(ctx, e[1]) = e[1]

C20_Witness ==
    /\ last.op = "read"
    /\ last.name = <<"a">>
    /\ ctx.name = <<"m">>
    /\ ctx.reads = {<< <<"/", "a">>, last.dynamic >>}
    /\ resolve(ctx, <<"a">>) = <<"/", "a">>
    /\ resolve(ctx, <<"/", "a">>) = <<"/", "a">>

(***************************************************************************)
(* What the specification says of launch and of sessions                   *)
(***************************************************************************)
\* no behaviour can be found for the key: neither it nor a placeholder is registered
KeyMissing(ms, key) ==
    key \notin DOMAIN ms /\ PlaceholderKey \notin DOMAIN ms

\* the (package, type) named by the second token of a nodelet's arguments
NodeletKey(a) ==
    LET second == partition(partition(a, " ")[3], " ")[1]
    IN  <<partition(second, "/")[1], partition(second, "/")[3]>>

\* loading the node fails in a registry with the keys of ms
Fails(ms, node) ==
    IF node.typ = NODELET
    THEN LET a == strip(node.args)
         IN  /\ a # <<"manager">>
             /\ \/ (~startswith(a, <<"standalone", " ">>) /\ Tokens(a) # 3)
                \/ KeyMissing(ms, NodeletKey(a))
    ELSE KeyMissing(ms, <<node.package, node.typ>>)

\* the position of the first node that fails, 0 when none does
FirstFailure(ms, descs) ==
    IF \E i \in 1..Len(descs) : Fails(ms, descs[i])
    THEN CHOOSE i \in 1..Len(descs) :
            Fails(ms, descs[i]) /\ \A j \in 1..(i - 1) : ~Fails(ms, descs[j])
    ELSE 0

\* this step is a call made by session s; Latest(s) is that call
Stepped(s) ==
    history'[s] # history[s]

Latest(s) ==
    history'[s][Len(history'[s])]

\* the registry as it was populated: each Model under its own key
Pristine(ms) ==
    [k \in DOMAIN ms |-> [ms[k] EXCEPT !.package = k[1], !.name = k[2]]]

\* a session that makes the calls on its own, from a new Interpreter
RECURSIVE Alone(_, _)
Alone(ms, calls) ==
    IF calls = << >> THEN [models |-> ms, store |-> << >>, nodes |-> {}, ctx |-> NoCtx]
    ELSE LET n == Len(calls)
             before == Alone(ms, SubSeq(calls, 1, n - 1))
             c == calls[n]
             d == c.nodes[1]
         IN  IF c.op = "launch"
             THEN launch(before.models, before.store, before.nodes, before.ctx, 1, c)
             ELSE load(before.models, before.store, before.nodes, before.ctx, 1,
                       d.package, d.typ, d.name, d.namespace, d.remappings, d.args)

(***************************************************************************)
(* C16: launch, once the file is preprocessed and read, loads the nodes in *)
(* the order of the configuration; when the                                *)
(* k-th node is the first to fail, the call fails, every node before k     *)
(* that evaluates a behaviour has its summary in the result set, and no    *)
(* node from k on is evaluated or summarized; when no node fails the call  *)
(* completes.                                                              *)
(***************************************************************************)
C16_FailFast ==
    [][ \A s \in Interpreters :
          (CallStep("launch") /\ Stepped(s) /\ Latest(s).sed = "ok")
          => LET descs == Latest(s).nodes
                 k == FirstFailure(models, descs)
                 added == nodes'[s] \ nodes[s]
             IN  /\ (k = 0) <=> (last'.err = "ok")
                 /\ k > 0 =>
                       /\ \A i \in k..Len(descs) :
                             \A n \in added : n.name # descs[i].name
                       /\ \A i \in 1..(k - 1) :
                             strip(descs[i].args) # <<"manager">>
                                => \E n \in nodes'[s] : n.name = descs[i].name
                       /\ ctx' = ctx
                             \/ ctx'.name \in {descs[j].name : j \in 1..(k - 1)} ]_vars

C16_Witness ==
    /\ last.op = "launch"
    /\ last.name = <<"AXB">>
    /\ last.err = "Exception"
    /\ PlaceholderKey \notin DOMAIN models
    /\ Len(history[1]) = 1
    /\ history[2] = << >>
    /\ {n.name : n \in nodes[1]} = {<<"a">>}
    /\ ctx.name = <<"a">>

(***************************************************************************)
(* C18: a call made in one session leaves the parameter server and the     *)
(* result set of the other session unchanged, and after every interleaving *)
(* each session's parameter server and result set are those the session    *)
(* produces when it makes its calls alone on the registry as populated.    *)
(***************************************************************************)
C18_SessionsIsolated ==
    [][ \A s \in Interpreters :
          /\ ~Stepped(s) => (params'[s] = params[s] /\ nodes'[s] = nodes[s])
          /\ nodes'[s] = Alone(Pristine(models'), history'[s]).nodes
          /\ params'[s] = Alone(Pristine(models'), history'[s]).store ]_vars

C18_Witness ==
    /\ steps = 3
    /\ Len(history[1]) = 2
    /\ Len(history[2]) = 1
    /\ history[1][1].id = "AXB"
    /\ history[2][1].id = "nodelets"
    /\ history[1][2].id = "load"
    /\ PlaceholderKey \in DOMAIN models
    /\ models[PlaceholderKey].package = <<"p3">>
    /\ Cardinality(nodes[1]) = 3
    /\ Cardinality(nodes[2]) = 1
    /\ DOMAIN params[1] = {<<"/", "a">>}
    /\ params[2] = << >>

(***************************************************************************)
(* C19: with (p1, t1) registered to publish '/x' with format T and         *)
(* (p2, t2) registered to subscribe to '/x' with format T, a session whose *)
(* one call is the launch of node A (p1, t1) and node B (p2, t2) has       *)
(* exactly two summaries in its result set, A's publications containing    *)
(* ('/x', T) and B's subscriptions containing ('/x', T).                   *)
(***************************************************************************)
C19_EndToEnd ==
    \A s \in Interpreters :
       (/\ Len(history[s]) = 1
        /\ history[s][1].id = "AB"
        /\ <<(<<"p1">>), (<<"t1">>)>> \in DOMAIN models
        /\ <<(<<"p2">>), (<<"t2">>)>> \in DOMAIN models
        /\ models[<<(<<"p1">>), (<<"t1">>)>>].definition = "pub_x"
        /\ models[<<(<<"p2">>), (<<"t2">>)>>].definition = "sub_x")
       => /\ Cardinality(nodes[s]) = 2
          /\ \E a \in nodes[s] :
                /\ a.name = <<"a">> /\ a.package = <<"p1">> /\ a.kind = <<"t1">>
                /\ << <<"/", "x">>, <<"T">> >> \in a.pubs
          /\ \E b \in nodes[s] :
                /\ b.name = <<"b">> /\ b.package = <<"p2">> /\ b.kind = <<"t2">>
                /\ << <<"/", "x">>, <<"T">> >> \in b.subs

C19_Witness ==
    /\ last.op = "launch"
    /\ last.name = <<"AB">>
    /\ last.err = "ok"
    /\ steps = 1
    /\ Len(history[1]) = 1
    /\ history[1][1].id = "AB"
    /\ Cardinality(nodes[1]) = 2
    /\ \E a \in nodes[1] : a.pubs = {<< <<"/", "x">>, <<"T">> >>} /\ a.subs = {}
    /\ \E b \in nodes[1] : b.subs = {<< <<"/", "x">>, <<"T">> >>} /\ b.pubs = {}

\* the interaction sets and the parameter sets of a context
SetsOf(self) ==
    [pubs |-> self.pubs, subs |-> self.subs,
     provides |-> self.provides, uses |-> self.uses,
     action_servers |-> self.action_servers,
     action_clients |-> self.action_clients,
     reads |-> self.reads, writes |-> self.writes]

\* the sets a call declares entries in
Declares(op) ==
    CASE op = "pub" -> {"pubs"}
      [] op = "sub" -> {"subs"}
      [] op = "provide" -> {"provides"}
      [] op = "use" -> {"uses"}
      [] op = "read" -> {"reads"}
      [] op = "write" -> {"writes"}
      [] op = "action_server" -> {"action_servers", "subs", "pubs"}
      [] op = "action_client" -> {"action_clients", "subs", "pubs"}

\* the entries a call on the context declares in set f
Added(self, call, f) ==
    LET q == Qualified(self.name, call.name)
        t == Target(self.remappings, q)
        goal == Remapped(self.remappings, GoalSide(q, call.fmt))
        result == Remapped(self.remappings, ResultSide(q, call.fmt))
    IN  CASE call.op \in {"pub", "sub", "provide", "use"} -> {<<t, call.fmt>>}
          [] call.op = "read" -> {<<q, call.dynamic>>}
          [] call.op = "write" -> {q}
          [] call.op = "action_server" ->
               (CASE f = "action_servers" -> {<<q, call.fmt>>}
                  [] f = "subs" -> goal
                  [] f = "pubs" -> result)
          [] call.op = "action_client" ->
               (CASE f = "action_clients" -> {<<q, call.fmt>>}
                  [] f = "pubs" -> goal
                  [] f = "subs" -> result)

(***************************************************************************)
(* C23: over every effect call on a context, each of the six interaction   *)
(* sets and the parameter-read and parameter-write sets only grows: no     *)
(* entry is removed, every entry held after the call was held before it or *)
(* is one the call declares, and the call changes no set other than those  *)
(* it declares in.                                                         *)
(***************************************************************************)
C23_Monotonic ==
    [][ steps' = steps + 1
        => /\ \A f \in DOMAIN SetsOf(ctx) :
                 /\ SetsOf(ctx)[f] \subseteq SetsOf(ctx')[f]
                 /\ f \notin Declares(last'.op) => SetsOf(ctx')[f] = SetsOf(ctx)[f]
           /\ \A f \in Declares(last'.op) :
                 SetsOf(ctx')[f] = SetsOf(ctx)[f] \cup Added(ctx, last', f)
           /\ ctx'.name = ctx.name
           /\ ctx'.remappings = ctx.remappings ]_vars

C23_Witness ==
    /\ steps = 2
    /\ last.op = "write"
    /\ last.name = <<"~", "a">>
    /\ ctx.writes = {<<"/", "a">>, <<"/">> \o ctx.name \o <<"/", "a">>}
    /\ ctx.pubs = {} /\ ctx.subs = {} /\ ctx.reads = {}

\* namespace and name joined by one '/'
Joined(namespace, name) ==
    IF namespace[Len(namespace)] = "/"
    THEN namespace \o name
    ELSE namespace \o <<"/">> \o name

(***************************************************************************)
(* C25 as stated: the fully qualified name in the summary of a node is its *)
(* namespace followed by its name, joined by exactly one '/', with no      *)
(* other character added, for every namespace, the root namespace          *)
(* included.                                                               *)
(***************************************************************************)
C25_FullName ==
    summarize(ctx).fullname = Joined(ctx.namespace, ctx.name)

(***************************************************************************)
(* C21: launch stores every parameter the configuration declares in the    *)
(* session's parameter server, under its key as given, before the first    *)
(* node's behaviour is evaluated: the store holds the declared value after *)
(* the call, whether or not a node fails, and a node whose behaviour reads *)
(* the declared key /a during the launch gets the declared value (it       *)
(* publishes the topic of that name), not its default.                     *)
(***************************************************************************)
C21_ParamsSeeded ==
    [][ \A s \in Interpreters :
          (CallStep("launch") /\ Stepped(s) /\ Latest(s).sed = "ok")
          => \A i \in 1..Len(Latest(s).params) :
                LET key == Latest(s).params[i][1]
                    value == Latest(s).params[i][2]
                IN  /\ key \in DOMAIN params'[s]
                    /\ params'[s][key] = value
                    /\ \A n \in nodes'[s] \ nodes[s] :
                          (/\ key = <<"/", "a">>
                           /\ <<n.package, n.kind>> \in DOMAIN models
                           /\ models[<<n.package, n.kind>>].definition = "pub_param")
                          => n.pubs = {<< <<"/", value>>, <<"T">> >>} ]_vars

C21_Witness ==
    /\ last.op = "launch"
    /\ last.name = <<"AXB">>
    /\ steps = 1
    /\ Len(history[1]) = 1
    /\ params[1] = [k \in {<<"/", "a">>} |-> "v1"]
    /\ models[<<(<<"p1">>), (<<"t1">>)>>].definition = "pub_param"
    /\ \E n \in nodes[1] :
          n.name = <<"a">> /\ n.pubs = {<< <<"/", "v1">>, <<"T">> >>}

(***************************************************************************)
(* C22: every launch call runs the sed command on the file exactly once,   *)
(* before the reader reads the file, whatever the file holds; when the     *)
(* command fails the call fails, the reader is not called, and no          *)
(* parameter is stored and no node loaded.                                 *)
(***************************************************************************)
C22_PreprocessFirst ==
    [][ \A s \in Interpreters :
          (CallStep("launch") /\ Stepped(s))
          => /\ Len(io') >= 1
             /\ io'[1] = "sed"
             /\ Cardinality({i \in 1..Len(io') : io'[i] = "sed"}) = 1
             /\ Latest(s).sed = "ok" => io' = <<"sed", "read">>
             /\ Latest(s).sed # "ok" =>
                   /\ \A i \in 1..Len(io') : io'[i] # "read"
                   /\ last'.err # "ok"
                   /\ params' = params
                   /\ nodes' = nodes
                   /\ models' = models
                   /\ ctx' = ctx ]_vars

C22_Witness ==
    /\ last.op = "launch"
    /\ last.name = <<"unwritable">>
    /\ last.err = "CalledProcessError"
    /\ io = <<"sed">>
    /\ steps = 1
    /\ \A s \in Interpreters : params[s] = << >> /\ nodes[s] = {}
    /\ ctx = NoCtx

(***************************************************************************)
(* C24: when launch fails at the k-th node, nothing is rolled back: the    *)
(* result set is the one the launch of nodes 1..k-1 alone leaves (what it  *)
(* held before, and the summaries of those nodes; none of node k or        *)
(* later), and the parameter server holds every parameter of the           *)
(* configuration and every parameter it held before.                       *)
(***************************************************************************)
C24_NoRollback ==
    [][ \A s \in Interpreters :
          (CallStep("launch") /\ Stepped(s) /\ Latest(s).sed = "ok")
          => LET c == Latest(s)
                 k == FirstFailure(models, c.nodes)
                 before == [c EXCEPT !.nodes = SubSeq(c.nodes, 1, k - 1)]
                 prefix == launch(models, params[s], nodes[s], ctx, s, before)
             IN  k > 0 =>
                   /\ last'.err # "ok"
                   /\ prefix.err = "ok"
                   /\ nodes'[s] = prefix.nodes
                   /\ nodes[s] \subseteq nodes'[s]
                   /\ {n.name : n \in nodes'[s] \ nodes[s]} \subseteq
                         {c.nodes[j].name : j \in 1..(k - 1)}
                   /\ \A j \in 1..(k - 1) :
                         strip(c.nodes[j].args) # <<"manager">>
                            => \E n \in nodes'[s] : n.name = c.nodes[j].name
                   /\ \A i \in 1..Len(c.params) :
                         /\ c.params[i][1] \in DOMAIN params'[s]
                         /\ params'[s][c.params[i][1]] = c.params[i][2]
                   /\ \A key \in DOMAIN params[s] : key \in DOMAIN params'[s] ]_vars

C24_Witness ==
    /\ last.op = "launch"
    /\ last.name = <<"AXB">>
    /\ last.err = "Exception"
    /\ history[1] = << >>
    /\ Len(history[2]) = 1
    /\ nodes[1] = {}
    /\ {n.name : n \in nodes[2]} = {<<"a">>}
    /\ params[2] = [k \in {<<"/", "a">>} |-> "v1"]
    /\ params[1] = << >>

====
